---------------------------- MODULE Spec2Model ----------------------------
(***************************************************************************)
(* State machine of the HomePage build form (src/unnamed/part_000): the    *)
(* React state of the component, the event handlers handleArchiveSelect,   *)
(* resetForm, the option inputs' onChange, and onSubmit with each of its   *)
(* suspension points (await fetch, await response.json(), await            *)
(* response.blob()) as a separate step.  Every synchronous segment of a    *)
(* handler is one atomic action: React batches the setState calls of a     *)
(* segment and other events run only between segments.                     *)
(*                                                                         *)
(* Text that the code inspects character by character (file names, option  *)
(* values) is a sequence of one-character strings; text that is only       *)
(* stored and compared (status messages, log lines) is a string.           *)
(***************************************************************************)
EXTENDS Integers, Sequences, FiniteSets, TLC

VARIABLES
    formState,        \* useState(defaultFormState), line 20
    status,           \* useState<BuildStatus>("idle"), line 21
    statusMessage,    \* useState(""), line 22
    logs,             \* useState<string[]>([]), line 23
    selectedArchive,  \* useState<File | null>(null), line 24
    subs,             \* the invocations of onSubmit that dispatched a request
    effects,          \* what the handler segment that ran last did that
                      \* the state does not show: request sent, object URL
                      \* created or revoked, file saved, failure caught,
                      \* form reset
    edits             \* number of option edits so far (at most MaxEdits)

vars == <<formState, status, statusMessage, logs, selectedArchive, subs,
          effects, edits>>

---------------------------------------------------------------------------
(* Bounds of the model *)

MaxSubmits == 2
MaxEdits == 1

---------------------------------------------------------------------------
(* Text *)

DotZip == <<".", "z", "i", "p">>

\* String.prototype.endsWith
EndsWith(s, suffix) ==
    /\ Len(s) >= Len(suffix)
    /\ SubSeq(s, Len(s) - Len(suffix) + 1, Len(s)) = suffix

Whitespace == {" ", "\t", "\n"}

UpperCase == <<"A", "B", "C", "D", "E", "F", "G", "H", "I", "J", "K", "L", "M",
               "N", "O", "P", "Q", "R", "S", "T", "U", "V", "W", "X", "Y", "Z">>
LowerCase == <<"a", "b", "c", "d", "e", "f", "g", "h", "i", "j", "k", "l", "m",
               "n", "o", "p", "q", "r", "s", "t", "u", "v", "w", "x", "y", "z">>

LowerChar(c) ==
    IF \E n \in DOMAIN UpperCase : UpperCase[n] = c
    THEN LowerCase[CHOOSE n \in DOMAIN UpperCase : UpperCase[n] = c]
    ELSE c

\* String.prototype.toLowerCase
ToLowerCase(s) == [n \in DOMAIN s |-> LowerChar(s[n])]

\* s.replace(/\s/g, "-"): every whitespace character becomes a hyphen of
\* its own.
ReplaceWhitespaceEach(s) ==
    [n \in DOMAIN s |-> IF s[n] \in Whitespace THEN "-" ELSE s[n]]

\* s.replace(/\s+/g, "-"): every maximal run of whitespace becomes one hyphen.
RECURSIVE ReplaceWhitespaceRuns(_)
ReplaceWhitespaceRuns(s) ==
    IF s = <<>> THEN <<>>
    ELSE IF Head(s) \in Whitespace
    THEN IF Len(s) > 1 /\ s[2] \in Whitespace
         THEN ReplaceWhitespaceRuns(Tail(s))
         ELSE <<"-">> \o ReplaceWhitespaceRuns(Tail(s))
    ELSE <<Head(s)>> \o ReplaceWhitespaceRuns(Tail(s))

---------------------------------------------------------------------------
(* Values *)

NULL == [null |-> TRUE]

File(name) == [name |-> name]

\* The files a user may drop or pick: two archives, a text file, and an
\* archive whose extension is upper case.
ProjectZip == File(<<"p", ".", "z", "i", "p">>)
OtherZip == File(<<"q", ".", "z", "i", "p">>)
NotesTxt == File(<<"n", ".", "t", "x", "t">>)
UpperZip == File(<<"P", ".", "Z", "I", "P">>)

Candidates == {NULL, ProjectZip, OtherZip, NotesTxt, UpperZip}

FieldNames ==
    <<"appName", "version", "entryPoint", "base", "iconPath", "includes",
      "excludes", "includeFiles", "targetName">>

Fields == {FieldNames[i] : i \in DOMAIN FieldNames}

defaultFormState ==
    [appName |-> <<"M", "y", "A", "p", "p", "l", "i", "c", "a", "t", "i", "o", "n">>,
     version |-> <<"1", ".", "0", ".", "0">>,
     entryPoint |-> <<"m", "a", "i", "n", ".", "p", "y">>,
     base |-> <<"c", "o", "n", "s", "o", "l", "e">>,
     iconPath |-> <<>>,
     includes |-> <<>>,
     excludes |-> <<>>,
     includeFiles |-> <<>>,
     targetName |-> <<>>]

MyApp == <<"M", "y", " ", " ", "A", "p", "p">>
Custom == <<"c", "u", "s", "t", "o", "m">>
Gui == <<"g", "u", "i">>

\* What a user may type or choose in the input of field k: the other choice
\* of the select, a name with a run of whitespace or nothing for appName, and
\* for the other text inputs some text when the default is empty, nothing
\* when it is not.
OptionValues(k) ==
    IF k = "base" THEN {Gui}
    ELSE IF k = "appName" THEN {<<>>, MyApp}
    ELSE IF defaultFormState[k] = <<>> THEN {Custom}
    ELSE {<<>>}

\* JavaScript values as they come out of response.json().
Undefined == [t |-> "undefined"]
JNull == [t |-> "null"]
JStr(s) == [t |-> "string", v |-> s]
JArr(a) == [t |-> "array", v |-> a]
JObj(message, details) == [t |-> "object", message |-> message, details |-> details]

\* v ?? fallback takes the fallback exactly for null and undefined.
Nullish(v) == v.t \in {"undefined", "null"}

\* JavaScript truthiness of the values above.
Truthy(v) == ~Nullish(v) /\ ~(v.t = "string" /\ v.v = "")

IsArray(v) == v.t = "array"

\* Bodies of a non-2xx response: text that is no JSON, the JSON value null,
\* and JSON objects with message and details present, absent or ill-typed.
NotJson == [json |-> FALSE]
Json(value) == [json |-> TRUE, value |-> value]

Bodies ==
    {NotJson,
     Json(JNull),
     Json(JObj(JStr("bad entry point"), JArr(<<"line1", "line2">>))),
     Json(JObj(Undefined, Undefined)),
     Json(JObj(JNull, JStr("oops"))),
     Json(JObj(JStr(""), JArr(<<>>)))}

\* Values a rejected promise or a throwing DOM call may throw: Error
\* objects, whose message may be empty, and a value that is no Error and
\* has no message.
Thrown ==
    {[isError |-> TRUE, message |-> "Failed to fetch"],
     [isError |-> TRUE, message |-> ""],
     [isError |-> FALSE]}

\* How the awaited fetch() settles.
FetchOutcomes ==
    {[kind |-> "reject", error |-> e] : e \in Thrown}
        \cup {[kind |-> "response", ok |-> b] : b \in BOOLEAN}

\* The statements of the save action that may throw once the blob is there.
SaveSteps == <<"createObjectURL", "appendChild", "click", "remove">>

\* What response.blob() rejects with and what a statement of the save action
\* throws: an Error with message text.
DomError == [isError |-> TRUE, message |-> "Failed to fetch"]

\* How the awaited response.blob() settles and, when it resolves, which
\* statement of the save action throws ("none": none does).
BlobOutcomes ==
    {[kind |-> "reject", error |-> DomError]}
        \cup {[kind |-> "blob", throwAt |-> "none"]}
        \cup {[kind |-> "blob", throwAt |-> SaveSteps[n], error |-> DomError] :
                n \in DOMAIN SaveSteps}

MsgOnlyZip == "Only .zip archives are supported."
MsgNoArchive == "Upload a project archive before building."
MsgWorking == "Uploading and building executable with cx_Freeze..."
MsgBuildFailed == "Build failed."
MsgSuccess == "Build succeeded! Your executable archive has downloaded."
MsgUnexpected == "Unexpected error while building."

---------------------------------------------------------------------------
Init ==
    /\ formState = defaultFormState
    /\ status = "idle"
    /\ statusMessage = ""
    /\ logs = <<>>
    /\ selectedArchive = NULL
    /\ subs = <<>>
    /\ effects = {}
    /\ edits = 0

isBusy == status = "working"

\* handleArchiveSelect with a rejection that also drops the selection.
handleArchiveSelectDropping(file) ==
    /\ IF file = NULL
       THEN /\ selectedArchive' = NULL
            /\ UNCHANGED <<status, statusMessage>>
       ELSE IF ~EndsWith(file.name, DotZip)
       THEN /\ status' = "error"
            /\ statusMessage' = MsgOnlyZip
            /\ selectedArchive' = NULL
       ELSE /\ status' = "idle"
            /\ statusMessage' = ""
            /\ selectedArchive' = file
    /\ effects' = {}
    /\ UNCHANGED <<formState, logs, subs, edits>>

\* handleArchiveSelect with an acceptance that keeps the old message.
handleArchiveSelectStale(file) ==
    /\ IF file = NULL
       THEN /\ selectedArchive' = NULL
            /\ UNCHANGED <<status, statusMessage>>
       ELSE IF ~EndsWith(file.name, DotZip)
       THEN /\ status' = "error"
            /\ statusMessage' = MsgOnlyZip
            /\ UNCHANGED selectedArchive
       ELSE /\ status' = "idle"
            /\ UNCHANGED statusMessage
            /\ selectedArchive' = file
    /\ effects' = {}
    /\ UNCHANGED <<formState, logs, subs, edits>>

\* handleArchiveSelect with a null candidate that also returns the status
\* line to idle.
handleArchiveSelectNullResets(file) ==
    /\ IF file = NULL
       THEN /\ selectedArchive' = NULL
            /\ status' = "idle"
            /\ statusMessage' = ""
       ELSE IF ~EndsWith(file.name, DotZip)
       THEN /\ status' = "error"
            /\ statusMessage' = MsgOnlyZip
            /\ UNCHANGED selectedArchive
       ELSE /\ status' = "idle"
            /\ statusMessage' = ""
            /\ selectedArchive' = file
    /\ effects' = {}
    /\ UNCHANGED <<formState, logs, subs, edits>>

\* handleArchiveSelect without the check of the extension.
handleArchiveSelectAny(file) ==
    /\ IF file = NULL
       THEN /\ selectedArchive' = NULL
            /\ UNCHANGED <<status, statusMessage>>
       ELSE /\ status' = "idle"
            /\ statusMessage' = ""
            /\ selectedArchive' = file
    /\ effects' = {}
    /\ UNCHANGED <<formState, logs, subs, edits>>

\* handleArchiveSelect, reached from the drop zone's onDrop and the file
\* input's onChange; neither is disabled while a build is running.
handleArchiveSelect(file) ==
    /\ IF file = NULL
       THEN /\ selectedArchive' = NULL
            /\ UNCHANGED <<status, statusMessage>>
       ELSE IF ~EndsWith(file.name, DotZip)
       THEN /\ status' = "error"
            /\ statusMessage' = MsgOnlyZip
            /\ UNCHANGED selectedArchive
       ELSE /\ status' = "idle"
            /\ statusMessage' = ""
            /\ selectedArchive' = file
    /\ effects' = {}
    /\ UNCHANGED <<formState, logs, subs, edits>>

\* resetForm without its setLogs([]).
resetFormKeepingLogs ==
    /\ ~isBusy
    /\ formState' = defaultFormState
    /\ status' = "idle"
    /\ statusMessage' = ""
    /\ selectedArchive' = NULL
    /\ effects' = {<<"reset">>}
    /\ UNCHANGED <<logs, subs, edits>>

\* resetForm, from the Reset and Clear buttons (disabled={isBusy}).
resetForm ==
    /\ ~isBusy
    /\ formState' = defaultFormState
    /\ status' = "idle"
    /\ statusMessage' = ""
    /\ logs' = <<>>
    /\ selectedArchive' = NULL
    /\ effects' = {<<"reset">>}
    /\ UNCHANGED <<subs, edits>>

\* onChange of the input of field k that also dismisses the status line.
updateFieldDismissing(k, v) ==
    /\ ~isBusy
    /\ edits < MaxEdits
    /\ edits' = edits + 1
    /\ formState' = [formState EXCEPT ![k] = v]
    /\ status' = "idle"
    /\ statusMessage' = ""
    /\ effects' = {}
    /\ UNCHANGED <<logs, selectedArchive, subs>>

\* onChange of the input of field k (disabled={isBusy}).
updateField(k, v) ==
    /\ ~isBusy
    /\ edits < MaxEdits
    /\ edits' = edits + 1
    /\ formState' = [formState EXCEPT ![k] = v]
    /\ effects' = {}
    /\ UNCHANGED <<status, statusMessage, logs, selectedArchive, subs>>

\* The multipart body with a part for every option, empty or not.
PayloadAll(archive, form) ==
    {<<"bundle", archive>>} \cup {<<k, form[k]>> : k \in Fields}

\* The multipart body built by onSubmit: the archive under "bundle" and one
\* part per option whose value is truthy (a non-empty string).
Payload(archive, form) ==
    {<<"bundle", archive>>} \cup {<<k, form[k]>> : k \in {f \in Fields : form[f] # <<>>}}

\* What an invocation of onSubmit keeps of the formState it closed over:
\* the two options it reads after the awaited fetch.
Closure(form) == [appName |-> form.appName, targetName |-> form.targetName]

\* onSubmit without the return of the missing-archive guard: the error it
\* sets is overwritten in the same batch and the request goes out.
onSubmitNoReturn ==
    /\ ~isBusy
    /\ logs' = <<>>
    /\ Len(subs) < MaxSubmits
    /\ status' = "working"
    /\ statusMessage' = MsgWorking
    /\ effects' = {<<"fetch", Payload(selectedArchive, formState)>>}
    /\ subs' = Append(subs, [pc |-> "fetch", formState |-> Closure(formState)])
    /\ UNCHANGED <<formState, selectedArchive, edits>>

\* onSubmit with setLogs([]) moved below the missing-archive guard: the
\* early return leaves the logs of the previous build.
onSubmitLateClear ==
    /\ ~isBusy
    /\ IF selectedArchive = NULL
       THEN /\ status' = "error"
            /\ statusMessage' = MsgNoArchive
            /\ effects' = {}
            /\ UNCHANGED <<logs, subs>>
       ELSE /\ Len(subs) < MaxSubmits
            /\ logs' = <<>>
            /\ status' = "working"
            /\ statusMessage' = MsgWorking
            /\ effects' = {<<"fetch", Payload(selectedArchive, formState)>>}
            /\ subs' = Append(subs, [pc |-> "fetch", formState |-> Closure(formState)])
    /\ UNCHANGED <<formState, selectedArchive, edits>>

\* onSubmit up to its first suspension point, the awaited fetch.  The submit
\* button is disabled={isBusy}.  selectedArchive and formState are the
\* values of the render the handler closes over.
onSubmit ==
    /\ ~isBusy
    /\ logs' = <<>>
    /\ IF selectedArchive = NULL
       THEN /\ status' = "error"
            /\ statusMessage' = MsgNoArchive
            /\ effects' = {}
            /\ UNCHANGED subs
       ELSE /\ Len(subs) < MaxSubmits
            /\ status' = "working"
            /\ statusMessage' = MsgWorking
            /\ effects' = {<<"fetch", Payload(selectedArchive, formState)>>}
            /\ subs' = Append(subs, [pc |-> "fetch", formState |-> Closure(formState)])
    /\ UNCHANGED <<formState, selectedArchive, edits>>

\* An invocation of onSubmit that has returned: its locals are gone.
Returned == [pc |-> "done"]

\* The catch clause with the fallback text for every failure.
CatchGeneric(error) ==
    /\ status' = "error"
    /\ statusMessage' = MsgUnexpected

\* The catch clause of onSubmit's outer try.
Catch(error) ==
    /\ status' = "error"
    /\ statusMessage' = IF error.isError THEN error.message ELSE MsgUnexpected

\* buildName of onSubmit, from the formState the handler closed over.
buildName(form) ==
    IF form.targetName # <<>> THEN form.targetName
    ELSE IF ToLowerCase(ReplaceWhitespaceRuns(form.appName)) # <<>>
    THEN ToLowerCase(ReplaceWhitespaceRuns(form.appName))
    ELSE <<"b", "u", "i", "l", "d">>

\* onSubmit from the settling of fetch to the next suspension point: the
\* catch clause on rejection, setStatus("error") and the awaited
\* response.json() on a non-2xx response, the awaited response.blob() else.
fetchSettled(i, outcome) ==
    /\ subs[i].pc = "fetch"
    /\ IF outcome.kind = "reject"
       THEN /\ Catch(outcome.error)
            /\ effects' = {<<"catch", i, outcome.error>>}
            /\ subs' = [subs EXCEPT ![i] = Returned]
       ELSE IF ~outcome.ok
       THEN /\ status' = "error"
            /\ effects' = {}
            /\ UNCHANGED statusMessage
            /\ subs' = [subs EXCEPT ![i].pc = "json"]
       ELSE /\ effects' = {}
            /\ UNCHANGED <<status, statusMessage>>
            /\ subs' = [subs EXCEPT ![i].pc = "blob"]
    /\ UNCHANGED <<formState, logs, selectedArchive, edits>>

\* onSubmit from the settling of response.json() to its return: the inner
\* try and its catch.  Text that is no JSON rejects the promise; destructuring
\* the value null throws.
jsonSettled(i, body) ==
    /\ subs[i].pc = "json"
    /\ IF ~body.json \/ body.value.t # "object"
       THEN /\ statusMessage' = MsgBuildFailed
            /\ UNCHANGED logs
       ELSE /\ statusMessage' = IF Nullish(body.value.message)
                                THEN MsgBuildFailed
                                ELSE body.value.message.v
            /\ IF Truthy(body.value.details) /\ IsArray(body.value.details)
               THEN logs' = body.value.details.v
               ELSE UNCHANGED logs
    /\ subs' = [subs EXCEPT ![i] = Returned]
    /\ effects' = {}
    /\ UNCHANGED <<formState, status, selectedArchive, edits>>

\* The statements of the save action in program order, revokeObjectURL last.
SaveOrder == SaveSteps \o <<"revokeObjectURL">>

\* The position of a statement in the save action; "none" is past the end.
StepIndex(step) ==
    IF step = "none" THEN Len(SaveOrder) + 1
    ELSE CHOOSE n \in DOMAIN SaveOrder : SaveOrder[n] = step

\* What the save action has done to the browser when the statement throwAt
\* throws ("none": when it completes): each statement before throwAt that
\* acts on the browser has acted.  fileName is anchor.download.
SaveEffects(throwAt, fileName) ==
    {e \in {<<"createObjectURL">>, <<"click", fileName>>, <<"revokeObjectURL">>} :
        StepIndex(throwAt) > StepIndex(e[1])}

\* onSubmit from the settling of response.blob() to its return: the save
\* action and success, or the catch clause with what the save action had
\* done before it threw.
blobSettled(i, outcome) ==
    /\ subs[i].pc = "blob"
    /\ IF outcome.kind = "reject"
       THEN /\ Catch(outcome.error)
            /\ effects' = {<<"catch", i, outcome.error>>}
       ELSE IF outcome.throwAt = "none"
       THEN /\ status' = "success"
            /\ statusMessage' = MsgSuccess
            /\ effects' = SaveEffects("none", buildName(subs[i].formState) \o DotZip)
       ELSE /\ Catch(outcome.error)
            /\ effects' = SaveEffects(outcome.throwAt, buildName(subs[i].formState) \o DotZip)
                              \cup {<<"catch", i, outcome.error>>}
    /\ subs' = [subs EXCEPT ![i] = Returned]
    /\ UNCHANGED <<formState, logs, selectedArchive, edits>>

Next ==
    \/ \E file \in Candidates : handleArchiveSelect(file)
    \/ resetForm
    \/ \E k \in Fields : \E v \in OptionValues(k) : updateField(k, v)
    \/ onSubmit
    \/ \E i \in DOMAIN subs : \E outcome \in FetchOutcomes : fetchSettled(i, outcome)
    \/ \E i \in DOMAIN subs : \E body \in Bodies : jsonSettled(i, body)
    \/ \E i \in DOMAIN subs : \E outcome \in BlobOutcomes : blobSettled(i, outcome)

Spec == Init /\ [][Next]_vars

---------------------------------------------------------------------------
(* Properties *)

\* Invocations of onSubmit whose request is out and whose fetch has not settled.
InFlight == {i \in DOMAIN subs : subs[i].pc = "fetch"}

\* The handler segment that ran last sent a request.
Dispatched(fx) == \E e \in fx : e[1] = "fetch"

\* C1: at most one build request is in flight at any time: no submit
\* dispatches a request while an earlier request's response is outstanding.
C1_AtMostOneInFlight == Cardinality(InFlight) <= 1

\* C2: a submit with no archive selected ends with status error and the
\* message "Upload a project archive before building.", and sends no
\* request, whatever the state before it.
C2_SubmitWithoutArchive ==
    [][(onSubmit /\ selectedArchive = NULL)
        => /\ status' = "error"
           /\ statusMessage' = "Upload a project archive before building."
           /\ ~Dispatched(effects')
           /\ subs' = subs]_vars

\* C2 witness: after an earlier submission was dispatched, a submit with no
\* archive has reported the missing archive and sent nothing.
C2_Witness ==
    /\ subs # <<>>
    /\ selectedArchive = NULL
    /\ status = "error"
    /\ statusMessage = MsgNoArchive
    /\ effects = {}

\* C3: once status is working it leaves working only in a step in which the
\* fetch of a dispatched request settles (response or failure): no archive
\* selection, option edit or reset moves it.
C3_WorkingUntilResponse ==
    [][(status = "working" /\ status' # "working")
        => \E i \in InFlight : subs'[i].pc # "fetch"]_vars

\* The candidates of the model whose name ends in ".zip", and the others.
ZipCandidates == {ProjectZip, OtherZip}
OtherCandidates == {NotesTxt, UpperZip}

\* C4: every accepted selection of an archive (name ending in .zip) leaves
\* status idle, the message empty and the log sequence empty.
C4_AcceptClearsLogs ==
    [][\A file \in ZipCandidates :
          handleArchiveSelect(file)
            => status' = "idle" /\ statusMessage' = "" /\ logs' = <<>>]_vars

\* C5: whenever a handler segment has created the object URL, it has also
\* revoked it by the time it ends, whichever later statement throws.
C5_ObjectURLReleased ==
    <<"createObjectURL">> \in effects => <<"revokeObjectURL">> \in effects

\* C6: rejecting a candidate whose name does not end in the case-sensitive
\* suffix ".zip" sets status error and the message "Only .zip archives are
\* supported." and leaves the selected archive as it was.
C6_RejectKeepsArchive ==
    [][\A file \in OtherCandidates :
          handleArchiveSelect(file)
            => /\ status' = "error"
               /\ statusMessage' = "Only .zip archives are supported."
               /\ selectedArchive' = selectedArchive]_vars

\* C6 witness: a rejection has been reported while an earlier selection is
\* still the selected archive.
C6_Witness ==
    /\ status = "error"
    /\ statusMessage = MsgOnlyZip
    /\ selectedArchive = ProjectZip

\* C7: accepting a candidate whose name ends in ".zip" makes it the selected
\* archive and sets status idle and the message empty, whatever they were.
C7_AcceptReplaces ==
    [][\A file \in ZipCandidates :
          handleArchiveSelect(file)
            => /\ selectedArchive' = file
               /\ status' = "idle"
               /\ statusMessage' = ""]_vars

\* C7 witness: after a failed build left its log lines, another archive was
\* accepted: it is the selection, status is idle and the message is empty.
C7_Witness ==
    /\ logs # <<>>
    /\ selectedArchive = OtherZip
    /\ status = "idle"
    /\ statusMessage = ""

\* What C8 expects of a body that parsed as JSON: its message, or "Build
\* failed." when it has none, and its details when they are a sequence.
BodyMessage(body) ==
    IF body.value.t = "object" /\ body.value.message.t = "string"
    THEN body.value.message.v
    ELSE "Build failed."

BodyDetails(body) ==
    IF body.value.t = "object" /\ body.value.details.t = "array"
    THEN body.value.details.v
    ELSE <<>>

\* C8: when the body of a non-2xx response parses as JSON, the submission
\* ends with status error, the message of the body (or "Build failed.") and
\* the log sequence equal to details when that is a sequence, else empty.
C8_JsonErrorBody ==
    [][\A i \in DOMAIN subs : \A body \in {b \in Bodies : b.json} :
          jsonSettled(i, body)
            => /\ status' = "error"
               /\ statusMessage' = BodyMessage(body)
               /\ logs' = BodyDetails(body)]_vars

\* C9: when the body of a non-2xx response cannot be parsed as JSON, the
\* submission ends with status error, the message "Build failed." and an
\* empty log sequence.
C9_UnparseableErrorBody ==
    [][\A i \in DOMAIN subs :
          jsonSettled(i, NotJson)
            => /\ status' = "error"
               /\ statusMessage' = "Build failed."
               /\ logs' = <<>>]_vars

\* The message text a thrown value carries, or the fallback when it has none.
FailureText(error) ==
    IF "message" \in DOMAIN error THEN error.message
    ELSE "Unexpected error while building."

\* C10: when the dispatch or the blob/save handling of a submission throws,
\* the handler returns with status error and the failure's message text, or
\* "Unexpected error while building." when the failure carries none.
C10_ThrownFailure ==
    \A e \in effects :
        e[1] = "catch"
          => /\ status = "error"
             /\ statusMessage = FailureText(e[3])
             /\ subs[e[2]].pc = "done"

\* C10 witness: an invocation whose save action threw after the object URL
\* was created has returned with status error and the failure's message.
C10_Witness ==
    /\ <<"createObjectURL">> \in effects
    /\ \E e \in effects : e[1] = "catch" /\ statusMessage = e[3].message
    /\ status = "error"

\* The nine BuildOptions fields, by the names of their request parts.
BuildOptionNames ==
    {"appName", "version", "entryPoint", "base", "iconPath", "includes",
     "excludes", "includeFiles", "targetName"}

\* The requests the handler segment that ran last sent.  formState and
\* selectedArchive are still those of the submit: onSubmit leaves them as
\* they are and every later segment empties effects.
SentRequests == {e[2] : e \in {x \in effects : x[1] = "fetch"}}

\* C11: every dispatched request carries the selected archive under
\* "bundle" and, for each of the nine options, a part of that name with its
\* value if and only if the value is non-empty at submit time, and nothing
\* else (no status, statusMessage or log data).
C11_RequestParts ==
    \A req \in SentRequests :
        /\ \A part \in req : part[1] \in {"bundle"} \cup BuildOptionNames
        /\ \A part \in req : part[1] = "bundle" <=> part[2] = selectedArchive
        /\ \E part \in req : part[1] = "bundle"
        /\ \A k \in BuildOptionNames :
              /\ formState[k] # <<>> => {part \in req : part[1] = k} = {<<k, formState[k]>>}
              /\ formState[k] = <<>> => {part \in req : part[1] = k} = {}

\* C11 witness: a request is out with a part for the edited targetName and
\* none for the empty iconPath.
C11_Witness ==
    \E req \in SentRequests :
        /\ <<"targetName", Custom>> \in req
        /\ ~\E part \in req : part[1] = "iconPath"

\* The file name the download is to carry for the options of a submit, read
\* off the rule for the application names of the model: "My  App" gives
\* my-app, "MyApplication" gives myapplication, the empty name gives build.
ExpectedStem(form) ==
    IF form.targetName # <<>> THEN form.targetName
    ELSE IF form.appName = <<"M", "y", " ", " ", "A", "p", "p">>
         THEN <<"m", "y", "-", "a", "p", "p">>
    ELSE IF form.appName = <<>>
         THEN <<"b", "u", "i", "l", "d">>
    ELSE <<"m", "y", "a", "p", "p", "l", "i", "c", "a", "t", "i", "o", "n">>

\* C12: the download is named targetName + ".zip" when targetName is
\* non-empty, whatever appName is; otherwise appName with each run of
\* whitespace turned into one hyphen and lower-cased, + ".zip", when that
\* is non-empty; otherwise "build.zip".
C12_DownloadName ==
    [][\A i \in {j \in DOMAIN subs : subs[j].pc = "blob"} :
          \A e \in {x \in effects' : x[1] = "click"} :
              subs'[i].pc = "done" =>
                  e[2] = ExpectedStem(subs[i].formState) \o <<".", "z", "i", "p">>]_vars

\* C12 witness: a build of the application "My  App" without a target name
\* succeeded and its download was clicked as my-app.zip.
C12_Witness ==
    /\ status = "success"
    /\ <<"click", <<"m", "y", "-", "a", "p", "p", ".", "z", "i", "p">>>> \in effects

\* C13: reset() restores, in one step, the default options, no archive,
\* status idle, the empty message and the empty log sequence.
C13_ResetRestoresDefaults ==
    [][resetForm =>
          /\ formState' =
                [appName |-> <<"M", "y", "A", "p", "p", "l", "i", "c", "a", "t", "i", "o", "n">>,
                 version |-> <<"1", ".", "0", ".", "0">>,
                 entryPoint |-> <<"m", "a", "i", "n", ".", "p", "y">>,
                 base |-> <<"c", "o", "n", "s", "o", "l", "e">>,
                 iconPath |-> <<>>, includes |-> <<>>, excludes |-> <<>>,
                 includeFiles |-> <<>>, targetName |-> <<>>]
          /\ selectedArchive' = NULL
          /\ status' = "idle"
          /\ statusMessage' = ""
          /\ logs' = <<>>]_vars

\* C13 witness: an option was edited and a build was submitted, and the
\* options are the defaults again with nothing else left.  No edit of the
\* model writes a default value, so a reset came after the edit.
C13_Witness ==
    /\ edits > 0
    /\ subs # <<>>
    /\ formState = defaultFormState
    /\ selectedArchive = NULL
    /\ status = "idle"
    /\ statusMessage = ""
    /\ logs = <<>>

\* C14: every submission empties the log sequence, whether it goes on to
\* dispatch a request or stops at the missing-archive guard.
C14_SubmitClearsLogs == [][onSubmit => logs' = <<>>]_vars

\* C14 witness, one per branch: a second submission has just been
\* dispatched after the first returned, or a submission after a returned
\* one has stopped at the guard; the logs are empty in both.
C14_Witness ==
    /\ logs = <<>>
    /\ subs # <<>>
    /\ subs[1].pc = "done"
    /\ \/ Dispatched(effects) /\ Len(subs) = 2
       \/ selectedArchive = NULL /\ status = "error" /\ statusMessage = MsgNoArchive

\* C15: update(f, v) sets option f to v and leaves every other option, the
\* archive, status, statusMessage and the logs as they were.
C15_UpdateOneField ==
    [][\A k \in BuildOptionNames : \A v \in OptionValues(k) :
          updateField(k, v) =>
              /\ formState'[k] = v
              /\ \A other \in BuildOptionNames \ {k} : formState'[other] = formState[other]
              /\ selectedArchive' = selectedArchive
              /\ status' = status
              /\ statusMessage' = statusMessage
              /\ logs' = logs]_vars

\* C15 witness: the target name is the edited one, every other option is
\* the default, and the error and the logs of a failed build are on screen.
C15_Witness ==
    /\ edits = 1
    /\ formState = [defaultFormState EXCEPT !.targetName = Custom]
    /\ status = "error"
    /\ logs # <<>>
    /\ effects = {}

\* The invocations of onSubmit that return in the step: their remote call
\* has completed, body read or save included.
Returning == {i \in DOMAIN subs : subs[i].pc # "done" /\ subs'[i].pc = "done"}

\* C16: when the remote call of a submission has completed, by any HTTP
\* status or by a thrown failure, the submission leaves status at success
\* or error with the message of that outcome, and never at working.
C16_CompletionSetsOutcome ==
    [][Returning # {} =>
          /\ status' \in {"success", "error"}
          /\ statusMessage' # "Uploading and building executable with cx_Freeze..."]_vars

\* C17: an absent candidate clears the selected archive and is no error:
\* status, statusMessage, the logs and the options stay as they were.
C17_NullClearsArchiveOnly ==
    [][handleArchiveSelect(NULL) =>
          /\ selectedArchive' = NULL
          /\ status' = status
          /\ statusMessage' = statusMessage
          /\ logs' = logs
          /\ formState' = formState]_vars

\* C17 witness: the success of a build is still on screen, no archive is
\* selected and the last step was no segment of onSubmit.  Without an edit
\* only the handling of an absent candidate keeps status at success.
C17_Witness ==
    /\ status = "success"
    /\ statusMessage = MsgSuccess
    /\ selectedArchive = NULL
    /\ effects = {}
    /\ edits = 0

\* The names of the model's candidates that end in ".zip", lower case.
ZipNames == {<<"p", ".", "z", "i", "p">>, <<"q", ".", "z", "i", "p">>}

\* C18: the selected archive is always absent or a file whose name ends in
\* ".zip", so the bundle of every dispatched request ends in ".zip".
C18_ArchiveIsZip ==
    /\ selectedArchive # NULL => selectedArchive.name \in ZipNames
    /\ \A req \in SentRequests : \A part \in req :
          part[1] = "bundle" => part[2] # NULL /\ part[2].name \in ZipNames

\* C18 witness: a request is out whose bundle is q.zip, chosen after
\* candidates of other names were offered.
C18_Witness ==
    /\ \E req \in SentRequests : <<"bundle", OtherZip>> \in req
    /\ selectedArchive = OtherZip

\* C19: in every state, those at the suspension points of onSubmit
\* included, status is idle only with an empty statusMessage, and the
\* statusMessage is the in-progress text exactly when status is working.
C19_StatusMessageConsistent ==
    /\ status = "idle" => statusMessage = ""
    /\ statusMessage = "Uploading and building executable with cx_Freeze..."
          <=> status = "working"

\* A step in which a segment of an earlier onSubmit resumes: an invocation
\* moves on, none is added.  No user event is such a step.
Resumes == Len(subs') = Len(subs) /\ subs' # subs

\* C20: after a reset status stays idle, the logs stay empty and no file is
\* saved until the next user event; here for the step that follows the
\* reset at once: if it is the arrival of the response of a request sent
\* before the reset, it changes none of these.
C20_ResetIsFinal ==
    [][(<<"reset">> \in effects /\ Resumes) =>
          /\ status' = "idle"
          /\ statusMessage' = ""
          /\ logs' = <<>>
          /\ ~\E e \in effects' : e[1] = "click"]_vars

===========================================================================
